---- MODULE Spec2Model ----
(***************************************************************************)
(* Model of the Bellman value-iteration solver (source/bellman.hpp): the   *)
(* constructor, improve (one action per pass of its outer loop), and the   *)
(* two index helpers index_from_coords / coords_from_index.                *)
(*                                                                         *)
(* Numbers.  Real (double) values and rewards are integers counting units  *)
(* of 2^-30, so One == 2^30 is 1.0.  Probabilities and the discount are    *)
(* counted in halves (-1/2, 0, 1/2, 1), so a product factor * x is         *)
(* (h * x) \div 2.  The inputs are chosen so that every such division is   *)
(* exact (ArithmeticExact below), hence the model computes exactly what    *)
(* the doubles of the program compute on the same inputs.                  *)
(* Vectors are functions on 0..n-1, as the code indexes them.              *)
(***************************************************************************)
EXTENDS Integers, Sequences, FiniteSets, TLC

\* ---------------------------------------------------------------- bounds
MaxS == 2          \* largest state space constructed
MaxA == 2          \* largest action space constructed
MaxIter == 3       \* largest iterations argument of improve
MaxCalls == 2      \* improve calls per solver in SpecResume
MaxLen == 3        \* longest dims / coords vector of the codec
MaxDim == 3        \* largest dimension size of the codec
GeoMaxIter == 40   \* largest iterations argument in SpecGeo

\* ------------------------------------------------------- representation
\* Real 1.0, in units of 2^-30
One == 2^30
\* -INF of line 106: below every finite value of the model
NegInf == -2147483647
\* the reward a problem definition pays (2^-6), and nothing
RewardUnit == 2^24
Rewards == {0, RewardUnit}
\* discount factors in halves: 0, 1/2, 1 and the out-of-range -1/2
Discounts == {-1, 0, 1, 2}
\* tolerances passed to improve
Tolerances == {0, RewardUnit}
\* 1e-9 on the 2^-30 grid: for a grid value d, d < 1e-9 iff d < ceil(1e-9 * 2^30)
TolNano == (One + 999999999) \div 1000000000

VARIABLES
    pc,           \* "new" (no solver), "idle", "loop" (at the for of line 96), "break"
    nS, nA,       \* cardinalities, const members
    discount,     \* const member, in halves
    kernel, rew,  \* the problem definition: which dynamic, and the reward table
    transitions,  \* sparse transition table, empty when not built
    value, policy,
    iterations, tolerance,   \* arguments of the running improve
    i, converged,            \* its locals
    log,          \* one record per improve call: arguments, per-sweep verdicts, report
    cpc, cdims, ccoords, cindex, cdecoded   \* codec harness

solverVars == <<pc, nS, nA, discount, kernel, rew, transitions, value, policy,
                iterations, tolerance, i, converged, log>>
codecVars == <<cpc, cdims, ccoords, cindex, cdecoded>>
vars == <<solverVars, codecVars>>

States == 0 .. nS - 1
Actions == 0 .. nA - 1
Kernels == {"shift", "mix"}

\* factor (in halves) times a Real: floor(h * x / 2), a whole factor taken first
\* so that the intermediate product stays within TLC's 32-bit integers
Mul2(h, x) == IF h % 2 = 0 THEN (h \div 2) * x ELSE (h * x) \div 2

Abs(x) == IF x < 0 THEN -x ELSE x

\* ------------------------------------------------- problem definition
\* dynamic(s, a, s1) in halves.  "shift": action a moves a states on, surely.
\* "mix": stay with probability 1/2, else move a+1 states on.
dynamicOf(k, n, s, a, s1) ==
    IF k = "shift"
    THEN (IF s1 = (s + a) % n THEN 2 ELSE 0)
    ELSE (IF s1 = s THEN 1 ELSE 0) + (IF s1 = (s + a + 1) % n THEN 1 ELSE 0)

dynamic(s, a, s1) == dynamicOf(kernel, nS, s, a, s1)

reward(s, a) == rew[s][a]

\* reward tables: nothing, everything, one rewarded state, one rewarded pair
RewardTables(n, m) ==
    LET S == 0 .. n - 1
        A == 0 .. m - 1
    IN  {[s \in S |-> [a \in A |-> r]] : r \in Rewards}
        \cup {[s \in S |-> [a \in A |-> IF s = g THEN RewardUnit ELSE 0]] : g \in S}
        \cup {[s \in S |-> [a \in A |-> IF s = g /\ a = b THEN RewardUnit ELSE 0]] :
                 g \in S, b \in A}

\* the sparse table built from dynamic: for each (s, a) the pairs <<s1, p>>
\* with p # 0, in the order the scan runs (up or down)
RECURSIVE Entries(_, _, _, _, _, _)
Entries(k, n, s, a, s1, acc) ==
    IF s1 >= n THEN acc
    ELSE LET p == dynamicOf(k, n, s, a, s1)
         IN  Entries(k, n, s, a, s1 + 1, IF p # 0 THEN Append(acc, <<s1, p>>) ELSE acc)

Reverse(q) == [j \in 1 .. Len(q) |-> q[Len(q) + 1 - j]]

BuildTransitions(k, n, m, order) ==
    [s \in 0 .. n - 1 |-> [a \in 0 .. m - 1 |->
        IF order = "up" THEN Entries(k, n, s, a, 0, <<>>)
        ELSE Reverse(Entries(k, n, s, a, 0, <<>>))]]

\* ------------------------------------------------------------- improve
Size(v) == Cardinality(DOMAIN v)

\* lines 120-122: the dense scan
RECURSIVE DenseExpectation(_, _, _, _, _)
DenseExpectation(V, s, a, s1, expectation) ==
    IF s1 >= nS THEN expectation
    ELSE DenseExpectation(V, s, a, s1 + 1, expectation + Mul2(dynamic(s, a, s1), V[s1]))

\* a sparse scan that indexes value by the entry's position, not by its s1
RECURSIVE SparseByPosition(_, _, _, _)
SparseByPosition(V, list, k, expectation) ==
    IF k > Len(list) THEN expectation
    ELSE SparseByPosition(V, list, k + 1, expectation + Mul2(list[k][2], V[k - 1]))

\* lines 115-117: the sparse scan over transitions[s][a]
RECURSIVE SparseExpectation(_, _, _, _)
SparseExpectation(V, list, k, expectation) ==
    IF k > Len(list) THEN expectation
    ELSE SparseExpectation(V, list, k + 1, expectation + Mul2(list[k][2], V[list[k][1]]))

\* lines 111-123, T the transition table in use
Expectation(T, V, s, a) ==
    IF Size(T) # 0
    THEN SparseExpectation(V, T[s][a], 1, 0)
    ELSE DenseExpectation(V, s, a, 0, 0)

\* line 125
Candidate(T, V, s, a) == reward(s, a) + Mul2(discount, Expectation(T, V, s, a))

\* a comparison that lets a later equal candidate win
BetterOrEqual(candidate, best_value) == candidate >= best_value

\* line 126
Better(candidate, best_value) == candidate > best_value

\* lines 106-130: <<best_value, best_action>>
RECURSIVE BestOver(_, _, _, _, _, _)
BestOver(T, V, s, a, best_value, best_action) ==
    IF a >= nA THEN <<best_value, best_action>>
    ELSE LET candidate == Candidate(T, V, s, a)
         IN  IF Better(candidate, best_value)
             THEN BestOver(T, V, s, a + 1, candidate, a)
             ELSE BestOver(T, V, s, a + 1, best_value, best_action)

\* a non-strict convergence test
WithinOrEqual(old, best_value, tol) ==
    IF old = NegInf \/ best_value = NegInf THEN FALSE
    ELSE Abs(old - best_value) <= tol

\* line 132: fabs(value[s] - best_value) < tolerance; with an infinite operand
\* the difference is infinite or NaN and the comparison is false
Within(old, best_value, tol) ==
    IF old = NegInf \/ best_value = NegInf THEN FALSE
    ELSE Abs(old - best_value) < tol

\* a double-buffered sweep: every state reads the array the sweep began with
RECURSIVE SweepBuffered(_, _, _, _, _, _)
SweepBuffered(T, s, V, Pi, conv, tol) ==
    IF s >= nS THEN [value |-> V, policy |-> Pi, converged |-> conv]
    ELSE LET best == BestOver(T, value, s, 0, NegInf, 0)
         IN  SweepBuffered(T, s + 1, [V EXCEPT ![s] = best[1]], [Pi EXCEPT ![s] = best[2]],
                           conv /\ Within(V[s], best[1], tol), tol)

\* a sweep that tests convergence after the write of line 134
RECURSIVE SweepLateCheck(_, _, _, _, _, _)
SweepLateCheck(T, s, V, Pi, conv, tol) ==
    IF s >= nS THEN [value |-> V, policy |-> Pi, converged |-> conv]
    ELSE LET best == BestOver(T, V, s, 0, NegInf, 0)
             W == [V EXCEPT ![s] = best[1]]
         IN  SweepLateCheck(T, s + 1, W, [Pi EXCEPT ![s] = best[2]],
                            conv /\ Within(W[s], best[1], tol), tol)

\* lines 104-136: the states in index order, value and policy written in place
RECURSIVE SweepFrom(_, _, _, _, _, _)
SweepFrom(T, s, V, Pi, conv, tol) ==
    IF s >= nS THEN [value |-> V, policy |-> Pi, converged |-> conv]
    ELSE LET best == BestOver(T, V, s, 0, NegInf, 0)
         IN  SweepFrom(T, s + 1, [V EXCEPT ![s] = best[1]], [Pi EXCEPT ![s] = best[2]],
                       conv /\ Within(V[s], best[1], tol), tol)

\* lines 96-142 as a function: sweeps k .. its from the arrays V, Pi
RECURSIVE ImproveRun(_, _, _, _, _, _)
ImproveRun(T, V, Pi, k, its, tol) ==
    IF k > its THEN [value |-> V, policy |-> Pi, report |-> "finished"]
    ELSE LET r == SweepFrom(T, 0, V, Pi, TRUE, tol)
         IN  IF r.converged
             THEN [value |-> r.value, policy |-> r.policy, report |-> "converged"]
             ELSE ImproveRun(T, r.value, r.policy, k + 1, its, tol)

\* lines 92-147 as a function: what one call can leave behind.  With no pass of
\* the loop, line 143 reads converged before any write to it
ImproveOutcomes(T, V, Pi, its, tol) ==
    IF its = 0
    THEN {[value |-> V, policy |-> Pi, report |-> rep] : rep \in {"none", "finished"}}
    ELSE {ImproveRun(T, V, Pi, 1, its, tol)}

Last(q) == q[Len(q)]

\* lines 44-50, with the derived class's problem definition and optional table
Construct(n, m, g, k, r, sparse) ==
    /\ pc = "new"
    /\ nS' = n /\ nA' = m /\ discount' = g
    /\ kernel' = k /\ rew' = r
    /\ value' = [s \in 0 .. n - 1 |-> 0]
    /\ policy' = [s \in 0 .. n - 1 |-> 0]
    /\ transitions' = IF sparse = "dense" THEN <<>> ELSE BuildTransitions(k, n, m, sparse)
    /\ pc' = "idle"
    /\ UNCHANGED <<iterations, tolerance, i, converged, log, codecVars>>

\* lines 92-96: entry; converged is declared without a value
ImproveBegin(its, tol, garbage) ==
    /\ pc = "idle"
    /\ iterations' = its /\ tolerance' = tol
    /\ i' = 1
    /\ converged' = garbage
    /\ log' = Append(log, [iterations |-> its, tolerance |-> tol, judged |-> <<>>,
                           report |-> "none", at |-> 0])
    /\ pc' = "loop"
    /\ UNCHANGED <<nS, nA, discount, kernel, rew, transitions, value, policy, codecVars>>

\* lines 96-142: one pass of the outer loop.  The progress line of 98-100 goes
\* to std::cout only and is left out; log records the reports of lines 139 and 144.
ImproveSweep ==
    /\ pc = "loop" /\ i <= iterations
    /\ LET r == SweepFrom(transitions, 0, value, policy, TRUE, tolerance)
       IN  /\ value' = r.value
           /\ policy' = r.policy
           /\ converged' = r.converged
           /\ IF r.converged
              THEN /\ pc' = "break" /\ i' = i
                   /\ log' = [log EXCEPT ![Len(log)] =
                                [@ EXCEPT !.judged = Append(@, TRUE),
                                          !.report = "converged", !.at = i]]
              ELSE /\ pc' = "loop" /\ i' = i + 1
                   /\ log' = [log EXCEPT ![Len(log)] =
                                [@ EXCEPT !.judged = Append(@, FALSE)]]
    /\ UNCHANGED <<nS, nA, discount, kernel, rew, transitions, iterations, tolerance,
                   codecVars>>

\* lines 143-147: loop exit and the closing report
ImproveEnd ==
    /\ \/ pc = "break"
       \/ pc = "loop" /\ i > iterations
    /\ log' = IF ~converged
              THEN [log EXCEPT ![Len(log)] =
                      [@ EXCEPT !.report = "finished", !.at = iterations]]
              ELSE log
    /\ pc' = "idle"
    /\ UNCHANGED <<nS, nA, discount, kernel, rew, transitions, value, policy,
                   iterations, tolerance, i, converged, codecVars>>

SolverInit ==
    /\ pc = "new"
    /\ nS = 0 /\ nA = 0 /\ discount = 0
    /\ kernel = "shift" /\ rew = <<>> /\ transitions = <<>>
    /\ value = <<>> /\ policy = <<>>
    /\ iterations = 0 /\ tolerance = 0 /\ i = 0 /\ converged = FALSE
    /\ log = <<>>

CodecIdle ==
    /\ cpc = "off" /\ cdims = <<>> /\ ccoords = <<>> /\ cindex = 0 /\ cdecoded = <<>>

Init == SolverInit /\ CodecIdle

ConstructAny ==
    \E n \in 0 .. MaxS, m \in 0 .. MaxA, g \in Discounts, k \in Kernels,
       sparse \in {"dense", "up", "down"} :
       \E r \in RewardTables(n, m) : Construct(n, m, g, k, r, sparse)

ImproveAny ==
    \E its \in 0 .. MaxIter, tol \in Tolerances, garbage \in BOOLEAN :
       ImproveBegin(its, tol, garbage)

\* one improve call on each solver
Next ==
    \/ ConstructAny
    \/ log = <<>> /\ ImproveAny
    \/ ImproveSweep
    \/ ImproveEnd

Spec == Init /\ [][Next]_vars

\* successive improve calls on each solver
NextResume ==
    \/ ConstructAny
    \/ Len(log) < MaxCalls /\ ImproveAny
    \/ ImproveSweep
    \/ ImproveEnd

SpecResume == Init /\ [][NextResume]_vars

\* the 1-state, 1-action problem: reward 1, dynamic 1, discount 1/2, tolerance 1e-9
GeoConstruct ==
    \E sparse \in {"dense", "up"} :
       Construct(1, 1, 1, "shift", [s \in {0} |-> [a \in {0} |-> One]], sparse)

GeoImprove ==
    \E its \in 0 .. GeoMaxIter, garbage \in BOOLEAN :
       log = <<>> /\ ImproveBegin(its, TolNano, garbage)

NextGeo ==
    \/ GeoConstruct
    \/ GeoImprove
    \/ ImproveSweep
    \/ ImproveEnd

SpecGeo == Init /\ [][NextGeo]_vars

\* --------------------------------------------------------------- codec
\* Index is unsigned 32-bit; within MaxLen and MaxDim no product leaves its range,
\* so the arithmetic below never wraps.
Min(x, y) == IF x < y THEN x ELSE y

\* an encoding that gives coords[0] weight 1: index += coords[i] * (dims[0]*..*dims[i-1])
RECURSIVE IndexLowFirst(_, _, _, _, _, _)
IndexLowFirst(coords, dims, n, k, weight, index) ==
    IF k >= n THEN index
    ELSE IndexLowFirst(coords, dims, n, k + 1, weight * dims[k], index + coords[k] * weight)

index_low_first(coords, dims) ==
    IndexLowFirst(coords, dims, Min(Size(coords), Size(dims)), 0, 1, 0)

\* lines 153-155
RECURSIVE IndexLoop(_, _, _, _, _)
IndexLoop(coords, dims, n, k, index) ==
    IF k >= n THEN index
    ELSE IndexLoop(coords, dims, n, k + 1, coords[k] + dims[k] * index)

\* lines 150-157
index_from_coords(coords, dims) ==
    IndexLoop(coords, dims, Min(Size(coords), Size(dims)), 0, 0)

\* lines 162-165: from the last dimension down to the first
RECURSIVE CoordsLoop(_, _, _, _)
CoordsLoop(dims, k, index, coords) ==
    IF k < 0 THEN coords
    ELSE CoordsLoop(dims, k - 1, index \div dims[k], [coords EXCEPT ![k] = index % dims[k]])

\* a decoding that peels the first dimension first
RECURSIVE CoordsUpLoop(_, _, _, _)
CoordsUpLoop(dims, k, index, coords) ==
    IF k >= Size(dims) THEN coords
    ELSE CoordsUpLoop(dims, k + 1, index \div dims[k], [coords EXCEPT ![k] = index % dims[k]])

coords_from_index_up(index, dims) ==
    CoordsUpLoop(dims, 0, index, [k \in DOMAIN dims |-> 0])

\* lines 160-167
coords_from_index(index, dims) ==
    CoordsLoop(dims, Size(dims) - 1, index, [k \in DOMAIN dims |-> 0])

DimVectors == UNION {[0 .. n - 1 -> 1 .. MaxDim] : n \in 0 .. MaxLen}

CodecInit ==
    /\ cpc = "input"
    /\ cdims \in DimVectors
    /\ ccoords \in [DOMAIN cdims -> 0 .. MaxDim - 1]
    /\ \A k \in DOMAIN cdims : ccoords[k] < cdims[k]
    /\ cindex = 0
    /\ cdecoded = <<>>

Encode ==
    /\ cpc = "input"
    /\ cindex' = index_from_coords(ccoords, cdims)
    /\ cpc' = "encoded"
    /\ UNCHANGED <<cdims, ccoords, cdecoded, solverVars>>

Decode ==
    /\ cpc = "encoded"
    /\ cdecoded' = coords_from_index(cindex, cdims)
    /\ cpc' = "decoded"
    /\ UNCHANGED <<cdims, ccoords, cindex, solverVars>>

NextCodec == Encode \/ Decode

InitCodec == SolverInit /\ CodecInit

SpecCodec == InitCodec /\ [][NextCodec]_vars

\* ---------------------------------------------------- arithmetic is exact
\* Every product a sweep forms from the current arrays divides without remainder,
\* so no rounding separates the model's values from the program's doubles.
RECURSIVE ExactFrom(_, _)
ExactFrom(s, V) ==
    \/ s >= nS
    \/ /\ \A a \in Actions :
             /\ \A s1 \in States : (dynamic(s, a, s1) * (V[s1] % 2)) % 2 = 0
             /\ (discount * (DenseExpectation(V, s, a, 0, 0) % 2)) % 2 = 0
       /\ ExactFrom(s + 1, [V EXCEPT ![s] = BestOver(transitions, V, s, 0, NegInf, 0)[1]])

ArithmeticExact == (pc = "loop" /\ i <= iterations) => ExactFrom(0, value)

\* ------------------------------------------------ vocabulary of the claims
\* a pass of improve's outer loop is about to run
InSweep == pc = "loop" /\ i <= iterations

\* sweeps the latest improve call has performed
SweepsDone == Len(Last(log).judged)

\* the array the constructor leaves
Zero == [s \in States |-> 0]

RECURSIVE SumFn(_, _)
SumFn(f, n) == IF n = 0 THEN 0 ELSE f[n - 1] + SumFn(f, n - 1)

\* Q(s, a) = reward(s, a) + discount * sum over s1 of P(s, a, s1) * W[s1]
QValue(W, s, a) ==
    rew[s][a] + Mul2(discount,
                     SumFn([s1 \in States |-> Mul2(dynamicOf(kernel, nS, s, a, s1), W[s1])], nS))

\* max over the actions of Q(s, .); over no action, the -INF the maximisation starts from
MaxQ(W, s) ==
    IF nA = 0 THEN NegInf
    ELSE CHOOSE q \in {QValue(W, s, a) : a \in Actions} :
            \A a \in Actions : q >= QValue(W, s, a)

\* the lowest action that attains the maximum
LowestArgMax(W, s) ==
    CHOOSE a \in Actions :
        /\ QValue(W, s, a) = MaxQ(W, s)
        /\ \A b \in Actions : b < a => QValue(W, s, b) # MaxQ(W, s)

\* within a step that runs a sweep: the array state s's update reads, i.e. this
\* sweep's values for the states before s and the previous values from s on
Mixed(s) == [s1 \in States |-> IF s1 < s THEN value'[s1] ELSE value[s1]]

\* the solver the specification's invariants allow
ValidSolver == nS > 0 /\ nA > 0 /\ 0 <= discount /\ discount <= 2

\* |x - y| < tol for finite x and y
Close(x, y, tol) == x # NegInf /\ y # NegInf /\ Abs(x - y) < tol

C2_ConvergedIffAllClose ==
    [][InSweep => (converged' <=> \A s \in States : Close(value[s], value'[s], tolerance))]_vars

\* C2 witness: a first sweep judged not converged only because the test is strict:
\* every state moved by at most the tolerance and one by exactly the tolerance.
C2_witness ==
    /\ pc = "loop" /\ Len(log) = 1 /\ SweepsDone = 1
    /\ Last(log).judged = <<FALSE>>
    /\ tolerance > 0
    /\ \A s \in States : Abs(value[s]) <= tolerance
    /\ \E s \in States : Abs(value[s]) = tolerance

\* C3: on a valid solver, a finished improve call either reports convergence at iteration k, having
\* run exactly k <= maxIterations sweeps of which only the last was judged
\* converged, or reports non-convergence, having run exactly maxIterations sweeps
\* none of which was judged converged.
C3_ReportsOneOutcome ==
    (pc = "idle" /\ log # <<>> /\ ValidSolver) =>
        LET e == Last(log)
            k == Len(e.judged)
        IN  \/ /\ e.report = "converged"
               /\ k >= 1 /\ k <= e.iterations /\ e.at = k
               /\ e.judged[k]
               /\ \A j \in 1 .. k - 1 : ~e.judged[j]
            \/ /\ e.report = "finished"
               /\ k = e.iterations
               /\ \A j \in 1 .. k : ~e.judged[j]

\* C4: in every sweep of a solver with at least one action, value[s] is set to the
\* maximum of Q(s, .) and policy[s] to the lowest action index attaining it.
C4_LowestMaximiser ==
    [][(InSweep /\ nA > 0) =>
          \A s \in States : /\ value'[s] = MaxQ(Mixed(s), s)
                            /\ policy'[s] = LowestArgMax(Mixed(s), s)]_vars

\* C4 witness: the first sweep met a two-way tie at state 0 between a rewarded
\* action 0 and action 1, and kept action 0.
C4_witness ==
    /\ pc \in {"loop", "break"} /\ Len(log) = 1 /\ SweepsDone = 1
    /\ nA >= 2 /\ nS >= 1
    /\ QValue(Zero, 0, 0) = RewardUnit /\ QValue(Zero, 0, 1) = RewardUnit
    /\ policy[0] = 0 /\ value[0] = RewardUnit

\* C5: no solver exists with nS = 0, nA = 0 or a discount outside [0, 1].
C5_OnlyValidSolvers == pc # "new" => ValidSolver

\* C8: with a sparse table holding exactly the nonzero entries of dynamic, each
\* sweep leaves the value and policy arrays and the convergence verdict that the
\* same sweep leaves when run from the same arrays with no table.
C8_SparseAsDense ==
    [][(InSweep /\ Size(transitions) # 0) =>
          [value |-> value', policy |-> policy', converged |-> converged']
              = SweepFrom(<<>>, 0, value, policy, TRUE, tolerance)]_vars

\* C8 witness: a sweep ran on a sparse table that lists fewer than nS successors
\* somewhere and left a nonzero value.
C8_witness ==
    /\ pc \in {"loop", "break"} /\ log # <<>> /\ SweepsDone >= 2
    /\ Size(transitions) # 0
    /\ \E s \in States, a \in Actions : Len(transitions[s][a]) < nS
    /\ \E s \in States, a \in Actions : Len(transitions[s][a]) > 1
    /\ \E s \in States : value[s] # 0

\* C10: on a valid solver, when a first improve(m, tol) ends with no sweep judged converged, a second
\* improve(n, tol) leaves the arrays and the reported outcome that one
\* improve(m + n, tol) from the constructor's arrays leaves; and no improve step
\* changes nS, nA, discount or the arrays' lengths.
C10_ResumeEqualsSingleRun ==
    [][/\ (pc' = "idle" /\ Len(log') = 2 /\ ValidSolver
             /\ (\A j \in 1 .. Len(log'[1].judged) : ~log'[1].judged[j])
             /\ log'[1].tolerance = log'[2].tolerance)
          => [value |-> value', policy |-> policy', report |-> log'[2].report]
                \in ImproveOutcomes(transitions, Zero, Zero,
                                    log'[1].iterations + log'[2].iterations,
                                    log'[2].tolerance)
       /\ pc # "new" => /\ nS' = nS /\ nA' = nA /\ discount' = discount
                        /\ DOMAIN value' = States /\ DOMAIN policy' = States]_vars

\* C9: in the 1-state, 1-action problem with reward 1, dynamic 1, discount 1/2 and
\* tolerance 1e-9, value[0] is 1 after one sweep and 2 - 2^(1-k) after k sweeps,
\* rises with every sweep, stays below 2, and a call given more than 31
\* iterations stops early, at iteration 31, with |value[0] - 2| < 1e-9 and policy[0] = 0.
C9_Geometric ==
    [][/\ (InSweep => value'[0] > value[0])
       /\ value'[0] - One < One
       /\ policy'[0] = 0
       /\ log' # <<>> =>
             LET k == Len(Last(log').judged)
             IN  /\ (k = 1 => value'[0] = One)
                 /\ (k >= 1 => value'[0] = One + (One - 2^(31 - k)))
                 /\ (pc' = "idle" /\ iterations' > 31) =>
                       /\ Last(log').report = "converged"
                       /\ Last(log').at = 31 /\ k = 31
                       /\ One - (value'[0] - One) < TolNano]_vars

\* C9 witness: a call with more than 31 iterations has ended, reporting convergence.
C9_witness ==
    /\ pc = "idle" /\ log # <<>> /\ iterations > 31
    /\ rew[0][0] = One /\ discount = 1 /\ tolerance = TolNano
    /\ Last(log).report = "converged"

\* C6: decoding the index of in-bounds coordinates gives the coordinates back.
C6_RoundTrip == cpc = "decoded" => cdecoded = ccoords

\* C6 witness: a round trip over at least two dimensions of different sizes and a
\* nonzero index.
C6_witness ==
    /\ cpc = "decoded" /\ Size(cdims) >= 2
    /\ cdims[0] # cdims[1] /\ cindex > 0 /\ ccoords[0] # ccoords[1]

\* product of dims[lo .. hi]
RECURSIVE ProdRange(_, _, _)
ProdRange(dims, lo, hi) == IF lo > hi THEN 1 ELSE dims[lo] * ProdRange(dims, lo + 1, hi)

\* C7 as stated: the index is the sum over i of coords[i] times the product of
\* dims[j] for j < i, so coords[0] has weight 1.
C7_LowFirst ==
    cpc \in {"encoded", "decoded"} =>
        cindex = SumFn([k \in DOMAIN cdims |-> ccoords[k] * ProdRange(cdims, 0, k - 1)],
                       Size(cdims))

\* C7 amended: the index is the sum over i of coords[i] times the product of
\* dims[j] for j > i, so the last coordinate has weight 1 and coords[0] the largest.
C7_HighFirst ==
    cpc \in {"encoded", "decoded"} =>
        cindex = SumFn([k \in DOMAIN cdims |->
                           ccoords[k] * ProdRange(cdims, k + 1, Size(cdims) - 1)],
                       Size(cdims))

\* C7 witness: an encoding in which coords[0] is nonzero and carries weight above 1.
C7_witness ==
    /\ cpc = "encoded" /\ Size(cdims) >= 2
    /\ ccoords[0] > 0 /\ cdims[1] > 1 /\ cindex >= ccoords[0] * cdims[1]

====
